---- MODULE Spec2Model ----
(***************************************************************************)
(* Ingestion pipeline of the sanctions API: manual and scheduled triggers, *)
(* run_ofac_update / run_un_update, parse_*_xml, process_entity over a     *)
(* SQLAlchemy session (autoflush off, expire on commit), the entity store  *)
(* with its child tables and the update_logs ledger.                       *)
(*                                                                         *)
(* The store is modelled as a read-committed database: every run owns one  *)
(* session whose flushed rows are visible to that session only and become  *)
(* visible to everybody at commit.  Row ids and timestamps are opaque: a   *)
(* row id names the run that created the row and its position there, an   *)
(* entity timestamp names the run and the entry that set it.               *)
(***************************************************************************)
EXTENDS Integers, Sequences, FiniteSets, TLC

\* ---------------------------------------------------------------- bounds
MaxRuns == 2          \* run_*_update invocations of one behaviour
MaxFaults == 1        \* commits that the store refuses in one behaviour
MaxActive == 2        \* run_*_update invocations executing at the same time
CommitEvery == 2      \* the batch size of parse_*_xml (100 in the code), scaled

\* ------------------------------------------------------------- constants
Sources == {"OFAC", "UN"}
NoContent == 0        \* download_*_data returned None
NoHash == 0           \* UpdateLog.file_hash left NULL
NoError == << >>      \* UpdateLog.error_message left NULL
RecentWindow == 30    \* minutes the manual trigger looks back in the ledger
NoReply == [kind |-> "none"]   \* nothing was asked yet

\* entity_data dictionaries as extract_entity_data returns them.  A record
\* with an empty name is never reconciled.  extract_error tells that the
\* extraction raised: extract_entity_data records the message and returns
\* what it had filled in until then.
RecordPool ==
  << [source_id |-> "X", name |-> "Jane Doe", type |-> "INDIVIDUAL",
      aliases |-> << "A" >>, addresses |-> << "addr1" >>, documents |-> << >>,
      nationalities |-> << "c1" >>, birth_info |-> << "b1" >>, program |-> "P1",
      extract_error |-> FALSE],
     [source_id |-> "X", name |-> "Jane Doe", type |-> "INDIVIDUAL",
      aliases |-> << "B" >>, addresses |-> << "addr1" >>, documents |-> << >>,
      nationalities |-> << "c1" >>, birth_info |-> << "b1" >>, program |-> "P1",
      extract_error |-> FALSE],
     [source_id |-> "Y", name |-> "Doe Enterprises", type |-> "ENTITY",
      aliases |-> << >>, addresses |-> << >>, documents |-> << "d1" >>,
      nationalities |-> << >>, birth_info |-> << >>, program |-> "",
      extract_error |-> FALSE],
     [source_id |-> "Z", name |-> "", type |-> "INDIVIDUAL",
      aliases |-> << "C" >>, addresses |-> << >>, documents |-> << >>,
      nationalities |-> << >>, birth_info |-> << >>, program |-> "P1",
      extract_error |-> FALSE],
     [source_id |-> "W", name |-> "Vessel One", type |-> "VESSEL",
      aliases |-> << >>, addresses |-> << >>, documents |-> << >>,
      nationalities |-> << >>, birth_info |-> << >>, program |-> "",
      extract_error |-> TRUE] >>

\* The feeds a download can return: whether ET.fromstring accepts the text
\* and the entries (indexes into RecordPool) in document order.
FeedPool ==
  << [wellformed |-> TRUE,  entries |-> << 1, 3, 5 >>],
     [wellformed |-> TRUE,  entries |-> << 2, 4, 3 >>],
     [wellformed |-> FALSE, entries |-> << >>],
     [wellformed |-> TRUE,  entries |-> << >>],
     [wellformed |-> TRUE,  entries |-> << 1, 2 >>] >>

Feeds == 1..Len(FeedPool)

\* The feeds each publisher serves.  An OFAC text without sdnEntry and a UN
\* text that is not XML are the refused texts of the two parsers.
FeedsOf(source) == IF source = "OFAC" THEN Feeds \ {3} ELSE Feeds \ {2, 5}
RunIds == 1..MaxRuns

\* The child tables of an entity; process_entity deletes the rows of the
\* first five before it rebuilds them.
ChildTables == {"aliases", "addresses", "documents", "nationalities", "sanctions", "births"}
ClearedTables == {"aliases", "addresses", "documents", "nationalities", "sanctions"}

VARIABLES
  runs,          \* per run: control state, locals and stats of run_*_update
  sess,          \* per run: the uncommitted part of its SQLAlchemy session
  entities,      \* committed rows of table entities
  children,      \* committed rows of the child tables
  update_logs,   \* committed rows of table update_logs
  now,           \* datetime.utcnow() as read by the run heads and the triggers
  faults,        \* commits refused so far
  reply,         \* what the search API answered last
  smtp,          \* the state of the SMTP service send_notification talks to
  scheduler      \* ETLScheduler: is_running and how its last call ended

vars == << runs, sess, entities, children, update_logs, now, faults, reply,
          smtp, scheduler >>

\* ------------------------------------------------------- pure functions
\* calculate_hash: an md5 digest of the feed text, taken as collision free.
calculate_hash(xml_content) == 1000 + xml_content

\* hashlib.md5(str(entity_data)) of process_entity.
hash_signature(i) == 2000 + i

Tagged(tbl, s) == [k \in 1..Len(s) |-> [tbl |-> tbl, val |-> s[k]]]

\* The child rows process_entity adds for one entity_data, in the order of
\* its db.add calls: aliases, addresses, documents, nationalities, one birth
\* row when birth_info is not empty, and always one sanction row.
SanctionProgram(source, data) ==
  IF source = "OFAC" /\ data.program = "" THEN "OFAC" ELSE data.program

ChildItems(source, data) ==
  Tagged("aliases", data.aliases) \o Tagged("addresses", data.addresses)
    \o Tagged("documents", data.documents)
    \o Tagged("nationalities", data.nationalities)
    \o (IF data.birth_info # << >>
          THEN << [tbl |-> "births", val |-> data.birth_info[1]] >> ELSE << >>)
    \o << [tbl |-> "sanctions", val |-> SanctionProgram(source, data)] >>

NewChildRows(source, data, entity_id, base) ==
  LET items == ChildItems(source, data)
  IN { [tbl |-> items[k].tbl, id |-> << base[1], base[2] + k >>, entity_id |-> entity_id,
        val |-> items[k].val] : k \in 1..Len(items) }

\* --------------------------------------------------------------- session
EmptySession == [ents |-> {}, deleted |-> {}, flushed |-> {}, pending |-> {},
                 loaded |-> {}]

\* What a query of run r sees: the committed rows overlaid with the rows
\* its own session has flushed.  Pending (unflushed) rows are not seen,
\* the session being created with autoflush=False.
EntityView(s) ==
  { e \in entities : \A t \in s.ents : t.id # e.id } \cup s.ents

ChildView(s) ==
  { c \in children : c.id \notin s.deleted } \cup s.flushed

\* Session.commit: flush what is pending and publish the session's rows.
CommittedEntities(s) == EntityView(s)
CommittedChildren(s) == ChildView(s) \cup s.pending

\* The outcomes of one commit: it succeeds, or the store refuses it.  A
\* refused commit raises, the transaction is rolled back and the session
\* begins a new one on its next use.
CommitOutcomes == IF faults < MaxFaults THEN {TRUE, FALSE} ELSE {TRUE}

\* ---------------------------------------------------------------- ledger
LogsOf(source) == { u \in update_logs : u.source = source }

\* query(UpdateLog).filter(source).order_by(update_date.desc()).first()
LastUpdateCandidates(source) ==
  { u \in LogsOf(source) : \A v \in LogsOf(source) : v.update_date <= u.update_date }

\* What .first() returns: one of the candidate rows, or None.
None == [status |-> "", file_hash |-> NoHash]
First(rows) == IF rows = {} THEN {None} ELSE rows

\* -------------------------------------------------------------- scheduler
\* The SMTP service: reachable, refusing (connect, login or send raises),
\* or not configured in the settings.
Services == {"up", "down", "unconfigured"}

\* The scheduler after start(): the state in which the cron jobs fire.
Started == [is_running |-> TRUE, last |-> "started"]
Stopped == [is_running |-> FALSE, last |-> ""]

\* send_notification without its try/except.
send_notification_uncaught(service) ==
  CASE service = "unconfigured" -> "skipped"
    [] service = "up" -> "sent"
    [] service = "down" -> "raised"

\* How a call of send_notification ends: it returns without sending when
\* SMTP is not configured, sends, or catches and logs what smtplib raised.
send_notification(service) ==
  CASE service = "unconfigured" -> "skipped"
    [] service = "up" -> "sent"
    [] service = "down" -> "error"

\* The subject run_*_update_job notifies with after run_*_update returned
\* (or raised); no_changes is only logged.  run_manual_update notifies
\* nobody.
Notification(origin, result) ==
  IF origin = "manual" THEN ""
  ELSE CASE result = "success" -> "success"
         [] result = "no_changes" -> ""
         [] result = "failed" -> "error"
         [] result = "raised" -> "critical"

\* How the job of a run ends.  An exception leaving send_notification is
\* caught by the except branch of the job, which notifies again.
JobEnd(origin, result) ==
  IF Notification(origin, result) # "" /\ send_notification(smtp) = "raised"
    THEN "raised" ELSE "returned"

\* run_*_update has returned to the job that called it.
Returned(run) ==
  [run EXCEPT !.notified = Notification(run.origin, run.result),
              !.job = JobEnd(run.origin, run.result)]

\* ------------------------------------------------------------------ runs
\* pc: idle (slot unused), downloading (start_time taken, download under
\* way), parsing (inside the loop of parse_*_xml), done (returned).
\* reconciled lists the records process_entity was called on; it is history
\* and is read by no action.
IdleRun ==
  [pc |-> "idle", source |-> "OFAC", origin |-> "manual", start_time |-> 0,
   xml_content |-> NoContent, file_hash |-> NoHash, idx |-> 1,
   processed_count |-> 0, entities_added |-> 0, entities_updated |-> 0,
   children_added |-> 0,
   entities_deleted |-> 0, errors |-> << >>, success |-> FALSE,
   result |-> "", reconciled |-> << >>, notified |-> "", job |-> ""]

Executing(r) == runs[r].pc \in {"downloading", "parsing"}

FreeRuns == { r \in RunIds : runs[r].pc = "idle" }
NextFreeRun == CHOOSE r \in FreeRuns : \A q \in FreeRuns : r <= q

\* A run can start while a slot is free and fewer than MaxActive runs are
\* executing.  Runs of different sources read and write disjoint rows of
\* every table, so only runs of one source are interleaved.
CanStart(source) ==
  /\ FreeRuns # {}
  /\ Cardinality({ q \in RunIds : Executing(q) }) < MaxActive
  /\ \A q \in RunIds : Executing(q) => runs[q].source = source

\* The head of run_*_update: start_time = datetime.utcnow().
StartedRun(source, origin) ==
  [IdleRun EXCEPT !.pc = "downloading", !.source = source, !.origin = origin,
                  !.start_time = now]

Init ==
  /\ runs = [r \in RunIds |-> IdleRun]
  /\ sess = [r \in RunIds |-> EmptySession]
  /\ entities = {}
  /\ children = {}
  /\ update_logs = {}
  /\ now = 1
  /\ faults = 0
  /\ reply = NoReply
  /\ smtp = "up"
  /\ scheduler = Started

\* ---------------------------------------------------------------- triggers
RecentUpdates(source) ==
  { u \in LogsOf(source) : u.update_date >= now - RecentWindow }

\* The guard of POST /etl/update: it looks at one (unordered .first())
\* ledger row of the source in the last 30 minutes and answers 409 when
\* the status of that row is IN_PROGRESS.
UpdateInProgress(recent_update) ==
  recent_update # None /\ recent_update.status = "IN_PROGRESS"

\* POST /etl/update: 409, or the update is handed to a background task
\* that calls run_manual_update and so run_*_update.
trigger_manual_update(source) ==
  /\ \E recent_update \in First(RecentUpdates(source)) :
       IF UpdateInProgress(recent_update)
         THEN UNCHANGED << runs, now >>
         ELSE /\ CanStart(source)
              /\ runs' = [runs EXCEPT ![NextFreeRun] = StartedRun(source, "manual")]
              /\ now' = now + 1
  /\ UNCHANGED << sess, entities, children, update_logs, faults >>
  /\ UNCHANGED << reply, smtp, scheduler >>

\* A cron fire of job ofac_update / un_update.  With max_instances = 1 the
\* scheduler skips the fire while an instance of the same job is running.
scheduled_fire(source) ==
  /\ scheduler.is_running
  /\ CanStart(source)
  /\ ~ \E q \in RunIds : /\ Executing(q) /\ runs[q].source = source
                         /\ runs[q].origin = "scheduled"
  /\ runs' = [runs EXCEPT ![NextFreeRun] = StartedRun(source, "scheduled")]
  /\ now' = now + 1
  /\ UNCHANGED << sess, entities, children, update_logs, faults >>
  /\ UNCHANGED << reply, smtp, scheduler >>

\* ------------------------------------------------------- run_*_update
\* The row of the except branch written without its status, which then
\* takes the column default of UpdateLog.status.
FailureLogDefaultStatus(r, message) ==
  [source |-> runs[r].source, update_date |-> runs[r].start_time,
   records_added |-> 0, records_updated |-> 0, records_deleted |-> 0,
   file_hash |-> NoHash, status |-> "SUCCESS", error_message |-> << message >>,
   run |-> r]

\* The except branch of run_*_update: one FAILED row with str(e), committed
\* on the run's session; when that commit is refused too the exception
\* leaves run_*_update and no row is written.
FailureLog(r, message) ==
  [source |-> runs[r].source, update_date |-> runs[r].start_time,
   records_added |-> 0, records_updated |-> 0, records_deleted |-> 0,
   file_hash |-> NoHash, status |-> "FAILED", error_message |-> << message >>,
   run |-> r]

\* "Registrar actualizacion": the row written after parse_*_xml returned;
\* error_message is the joined error list, or NULL when the list is empty.
ResultLog(run, success) ==
  [source |-> run.source, update_date |-> run.start_time,
   records_added |-> run.entities_added,
   records_updated |-> run.entities_updated,
   records_deleted |-> run.entities_deleted,
   file_hash |-> run.file_hash,
   status |-> IF success THEN "SUCCESS" ELSE "FAILED",
   error_message |-> IF run.errors # << >> THEN run.errors ELSE NoError,
   run |-> run.id]

\* download_*_data returned None: "No se pudo descargar el archivo XML".
DownloadFailed(r) ==
  /\ runs[r].pc = "downloading"
  /\ \E ok \in CommitOutcomes :
       /\ update_logs' = IF ok
             THEN update_logs \cup {FailureLog(r, "No se pudo descargar el archivo XML")}
             ELSE update_logs
       /\ runs' = [runs EXCEPT ![r] =
             Returned([@ EXCEPT !.pc = "done",
                                !.result = IF ok THEN "failed" ELSE "raised"])]
       /\ faults' = IF ok THEN faults ELSE faults + 1
  /\ UNCHANGED << sess, entities, children, now >>
  /\ UNCHANGED << reply, smtp, scheduler >>

\* The comparison of "Verificar cambios" with its test inverted.
UnchangedInverted(last_update, file_hash) ==
  last_update # None /\ last_update.file_hash # file_hash

\* "Verificar cambios": the feed is unchanged when its hash equals the
\* file_hash of the row that last_update holds.
Unchanged(last_update, file_hash) ==
  last_update # None /\ last_update.file_hash = file_hash

\* The head of parse_*_xml: ET.fromstring raises on a malformed text, and
\* parse_ofac_xml returns False when it finds no sdnEntry.
ParseRefused(source, feed) ==
  ~ feed.wellformed \/ (source = "OFAC" /\ feed.entries = << >>)

\* The download returned a text: hash it, compare with last_update, and
\* either return no_changes, or enter parse_*_xml.  When parse_*_xml
\* returns False at once, the FAILED row is written in the same step.
VerifyChanges(r) ==
  /\ runs[r].pc = "downloading"
  /\ \E xml \in FeedsOf(runs[r].source) :
     LET source == runs[r].source
         file_hash == calculate_hash(xml)
         feed == FeedPool[xml]
         seen == [runs[r] EXCEPT !.xml_content = xml, !.file_hash = file_hash]
     IN \E last_update \in First(LastUpdateCandidates(source)) :
          IF Unchanged(last_update, file_hash)
            THEN /\ runs' = [runs EXCEPT ![r] =
                       Returned([seen EXCEPT !.pc = "done", !.result = "no_changes"])]
                 /\ UNCHANGED << update_logs, faults >>
          ELSE IF ParseRefused(source, feed)
            THEN \E ok \in CommitOutcomes :
                   /\ update_logs' = IF ok
                         THEN update_logs \cup {ResultLog(seen @@ [id |-> r], FALSE)}
                         ELSE update_logs
                   /\ runs' = [runs EXCEPT ![r] =
                         Returned([seen EXCEPT !.pc = "done",
                                      !.result = IF ok THEN "failed" ELSE "raised"])]
                   /\ faults' = IF ok THEN faults ELSE faults + 1
          ELSE /\ runs' = [runs EXCEPT ![r] = [seen EXCEPT !.pc = "parsing", !.idx = 1]]
               /\ UNCHANGED << update_logs, faults >>
  /\ UNCHANGED << sess, entities, children, now >>
  /\ UNCHANGED << reply, smtp, scheduler >>

\* ------------------------------------------------------- process_entity
\* The instant at which run r processes its current entry.
Instant(r) == << r, runs[r].idx >>

\* The ids the next rows of run r get.
NextEntityId(r) == << r, runs[r].entities_added + 1 >>
NextChildId(r) == << r, runs[r].children_added >>

\* The lookup of process_entity without its filter on Entity.source.
MatchesAnySource(r, data) ==
  { e \in EntityView(sess[r]) : e.source_id = data.source_id }

Matches(r, data) ==
  { e \in EntityView(sess[r]) :
      e.source = runs[r].source /\ e.source_id = data.source_id }

\* The rows of the existing entity that process_entity deletes: those its
\* relationship collections hold.  A collection is loaded from the session's
\* view on first use; one already loaded in this session is not read again.
RowsToDelete(s, entity_id) ==
  IF entity_id \in s.loaded THEN {}
  ELSE { c \in ChildView(s) : c.entity_id = entity_id /\ c.tbl \in ClearedTables }

\* The update branch of process_entity without its assignment of status.
SessionAfterUpdateKeepingStatus(r, i, existing) ==
  LET data == RecordPool[i]
      s == sess[r]
      row == [existing EXCEPT !.name = data.name, !.type = data.type,
                              !.last_updated = Instant(r), !.latest = i]
      seen == RowsToDelete(s, existing.id)
  IN [ents |-> { t \in s.ents : t.id # existing.id } \cup {row},
      deleted |-> s.deleted \cup { c.id : c \in seen },
      flushed |-> (s.flushed \cup s.pending) \ seen,
      pending |-> NewChildRows(runs[r].source, data, existing.id, NextChildId(r)),
      loaded |-> s.loaded \cup {existing.id}]

\* The update branch of process_entity stamping created_at as it stamps
\* last_updated.
SessionAfterUpdateStampingCreation(r, i, existing) ==
  LET data == RecordPool[i]
      s == sess[r]
      row == [existing EXCEPT !.name = data.name, !.type = data.type,
                              !.created_at = Instant(r),
                              !.last_updated = Instant(r), !.status = "UPDATED",
                              !.latest = i]
      seen == RowsToDelete(s, existing.id)
  IN [ents |-> { t \in s.ents : t.id # existing.id } \cup {row},
      deleted |-> s.deleted \cup { c.id : c \in seen },
      flushed |-> (s.flushed \cup s.pending) \ seen,
      pending |-> NewChildRows(runs[r].source, data, existing.id, NextChildId(r)),
      loaded |-> s.loaded \cup {existing.id}]

\* The entity exists: its scalars are overwritten, status becomes UPDATED,
\* the rows of its collections are deleted and flush() writes all that plus
\* whatever the session still held unflushed; the new child rows stay
\* pending.
SessionAfterUpdate(r, i, existing) ==
  LET data == RecordPool[i]
      s == sess[r]
      row == [existing EXCEPT !.name = data.name, !.type = data.type,
                              !.last_updated = Instant(r), !.status = "UPDATED",
                              !.latest = i]
      seen == RowsToDelete(s, existing.id)
  IN [ents |-> { t \in s.ents : t.id # existing.id } \cup {row},
      deleted |-> s.deleted \cup { c.id : c \in seen },
      flushed |-> (s.flushed \cup s.pending) \ seen,
      pending |-> NewChildRows(runs[r].source, data, existing.id, NextChildId(r)),
      loaded |-> s.loaded \cup {existing.id}]

\* The entity does not exist: a new row, status ACTIVE, with the hash of
\* the record.
SessionAfterInsert(r, i) ==
  LET data == RecordPool[i]
      s == sess[r]
      row == [id |-> NextEntityId(r), source |-> runs[r].source,
              source_id |-> data.source_id, name |-> data.name,
              type |-> data.type, status |-> "ACTIVE",
              hash_signature |-> hash_signature(i), created_at |-> Instant(r),
              last_updated |-> Instant(r), latest |-> i]
  IN [ents |-> s.ents \cup {row},
      deleted |-> s.deleted,
      flushed |-> s.flushed \cup s.pending,
      pending |-> NewChildRows(runs[r].source, data, NextEntityId(r), NextChildId(r)),
      loaded |-> s.loaded]

\* ----------------------------------------------------------- parse_*_xml
Entries(r) == FeedPool[runs[r].xml_content].entries

\* if processed_count % 100 == 0: db.commit()
BatchFull(processed_count) == processed_count % CommitEvery = 0

\* One iteration of the loop for an entry that has a name: process_entity,
\* processed_count += 1 and, when the batch is full, db.commit().  A
\* refused commit rolls the session back and is caught by the loop's except.
Reconciled(r, i, s2, isNew) ==
  LET count == runs[r].processed_count + 1
      counted == [runs[r] EXCEPT !.idx = @ + 1, !.processed_count = count,
                     !.entities_added = IF isNew THEN @ + 1 ELSE @,
                     !.entities_updated = IF isNew THEN @ ELSE @ + 1,
                     !.children_added = @ + Len(ChildItems(runs[r].source, RecordPool[i])),
                     !.errors = IF RecordPool[i].extract_error
                                  THEN Append(@, "extract error") ELSE @,
                     !.reconciled = Append(@, i)]
  IN IF BatchFull(count)
          THEN \E ok \in CommitOutcomes :
                 /\ entities' = IF ok THEN CommittedEntities(s2) ELSE entities
                 /\ children' = IF ok THEN CommittedChildren(s2) ELSE children
                 /\ sess' = [sess EXCEPT ![r] = EmptySession]
                 /\ faults' = IF ok THEN faults ELSE faults + 1
                 /\ runs' = [runs EXCEPT ![r] =
                      IF ok THEN counted
                      ELSE [counted EXCEPT !.errors = Append(@, "commit refused")]]
          ELSE /\ sess' = [sess EXCEPT ![r] = s2]
               /\ runs' = [runs EXCEPT ![r] = counted]
               /\ UNCHANGED << entities, children, faults >>

ReconcileRecord(r) ==
  /\ runs[r].pc = "parsing"
  /\ runs[r].idx <= Len(Entries(r))
  /\ LET i == Entries(r)[runs[r].idx]
     IN /\ RecordPool[i].name # ""
        /\ IF Matches(r, RecordPool[i]) = {}
             THEN Reconciled(r, i, SessionAfterInsert(r, i), TRUE)
             ELSE \E existing \in Matches(r, RecordPool[i]) :
                    Reconciled(r, i, SessionAfterUpdate(r, i, existing), FALSE)
  /\ UNCHANGED << update_logs, now >>
  /\ UNCHANGED << reply, smtp, scheduler >>

\* An entry without a name is not processed.
SkipRecord(r) ==
  /\ runs[r].pc = "parsing"
  /\ runs[r].idx <= Len(Entries(r))
  /\ RecordPool[Entries(r)[runs[r].idx]].name = ""
  /\ runs' = [runs EXCEPT ![r].idx = @ + 1,
                          ![r].errors = IF RecordPool[Entries(r)[runs[r].idx]].extract_error
                                          THEN Append(@, "extract error") ELSE @]
  /\ UNCHANGED << sess, entities, children, update_logs, now, faults >>
  /\ UNCHANGED << reply, smtp, scheduler >>

\* The end of the loop: "Commit final" (parse_*_xml returns True, or the
\* commit is refused, the outer except rolls back and it returns False),
\* then the row of the run is added and committed.  When that commit is
\* refused the except branch of run_*_update writes its own FAILED row.
FinishRun(r) ==
  /\ runs[r].pc = "parsing"
  /\ runs[r].idx > Len(Entries(r))
  /\ \E success \in CommitOutcomes :
     LET spent == IF success THEN faults ELSE faults + 1
     IN /\ entities' = IF success THEN CommittedEntities(sess[r]) ELSE entities
        /\ children' = IF success THEN CommittedChildren(sess[r]) ELSE children
        /\ \E ok \in (IF spent < MaxFaults THEN {TRUE, FALSE} ELSE {TRUE}) :
             IF ok
               THEN /\ update_logs' = update_logs \cup
                                        {ResultLog(runs[r] @@ [id |-> r], success)}
                    /\ runs' = [runs EXCEPT ![r] =
                          Returned([@ EXCEPT !.pc = "done", !.success = success,
                             !.result = IF success THEN "success" ELSE "failed"])]
                    /\ faults' = spent
               ELSE \E ok2 \in (IF spent + 1 < MaxFaults THEN {TRUE, FALSE} ELSE {TRUE}) :
                    /\ update_logs' = IF ok2
                          THEN update_logs \cup {FailureLog(r, "commit refused")}
                          ELSE update_logs
                    /\ runs' = [runs EXCEPT ![r] =
                          Returned([@ EXCEPT !.pc = "done", !.success = success,
                             !.result = IF ok2 THEN "failed" ELSE "raised"])]
                    /\ faults' = IF ok2 THEN spent + 1 ELSE spent + 2
  /\ sess' = [sess EXCEPT ![r] = EmptySession]
  /\ UNCHANGED now
  /\ UNCHANGED << reply, smtp, scheduler >>

Next ==
  \/ \E source \in Sources : trigger_manual_update(source)
  \/ \E source \in Sources : scheduled_fire(source)
  \/ \E r \in RunIds : DownloadFailed(r)
  \/ \E r \in RunIds : VerifyChanges(r)
  \/ \E r \in RunIds : ReconcileRecord(r)
  \/ \E r \in RunIds : SkipRecord(r)
  \/ \E r \in RunIds : FinishRun(r)

Spec == Init /\ [][Next]_vars

TypeOK ==
  /\ \A r \in RunIds : runs[r].pc \in {"idle", "downloading", "parsing", "done"}
  /\ faults \in 0..MaxFaults

\* ------------------------------------------------------------------ search
MaxLen == 3           \* length of the texts handed to calculate_similarity_score

\* Texts are sequences of characters.
Alphabet == {"a", "A", "b", " "}
Texts == UNION { [1..n -> Alphabet] : n \in 0..MaxLen }

\* str.lower, on the letters that occur.
LowerChar(c) ==
  CASE c = "A" -> "a" [] c = "B" -> "b" [] c = "C" -> "c" [] c = "D" -> "d"
    [] c = "E" -> "e" [] c = "J" -> "j" [] c = "O" -> "o" [] c = "V" -> "v"
    [] c = "F" -> "f" [] c = "M" -> "m" [] c = "N" -> "n" [] c = "S" -> "s"
    [] OTHER -> c
lower(s) == [k \in 1..Len(s) |-> LowerChar(s[k])]

\* sub in s
Contains(s, sub) ==
  \E k \in 0..(Len(s) - Len(sub)) : SubSeq(s, k + 1, k + Len(sub)) = sub

\* set(s.split()): the maximal runs of s without whitespace.
Words(s) ==
  { SubSeq(s, i, j) : << i, j >> \in
      { p \in (1..Len(s)) \X (1..Len(s)) :
          /\ p[1] <= p[2]
          /\ \A k \in p[1]..p[2] : s[k] # " "
          /\ p[1] = 1 \/ s[p[1] - 1] = " "
          /\ p[2] = Len(s) \/ s[p[2] + 1] = " " } }

\* The score without the two calls of lower().
calculate_similarity_score_cased(query, text) ==
  IF query = << >> \/ text = << >> THEN 0
  ELSE IF query = text THEN 1000
  ELSE IF Contains(text, query) THEN 800
  ELSE LET query_words == Words(query)
           text_words == Words(text)
       IN IF query_words \cap text_words # {}
            THEN (Cardinality(query_words \cap text_words) * 600)
                   \div Cardinality(query_words \cup text_words)
            ELSE 0

\* Scores are held in thousandths: 1.0 is 1000, 0.8 is 800 and
\* intersection / union * 0.6 is 600 * intersection / union.
calculate_similarity_score(query, text) ==
  IF query = << >> \/ text = << >> THEN 0
  ELSE LET query_lower == lower(query)
           text_lower == lower(text)
           query_words == Words(query_lower)
           text_words == Words(text_lower)
       IN IF query_lower = text_lower THEN 1000
          ELSE IF Contains(text_lower, query_lower) THEN 800
          ELSE IF query_words \cap text_words # {}
            THEN (Cardinality(query_words \cap text_words) * 600)
                   \div Cardinality(query_words \cup text_words)
            ELSE 0

\* One evaluation of calculate_similarity_score on the arguments asked.
ScoreInit ==
  /\ runs = [r \in RunIds |-> IdleRun]
  /\ sess = [r \in RunIds |-> EmptySession]
  /\ entities = {}
  /\ children = {}
  /\ update_logs = {}
  /\ now = 1
  /\ faults = 0
  /\ smtp = "up"
  /\ scheduler = Started
  /\ \E query \in Texts, text \in Texts :
       reply = [kind |-> "call", query |-> query, text |-> text]

Score ==
  /\ reply.kind = "call"
  /\ reply' = [kind |-> "score", query |-> reply.query, text |-> reply.text,
               score |-> calculate_similarity_score(reply.query, reply.text)]
  /\ UNCHANGED << runs, sess, entities, children, update_logs, now, faults, smtp, scheduler >>

ScoreNext == Score

ScoreSpec == ScoreInit /\ [][ScoreNext]_vars

\* The stored texts as sequences of characters.  The alias the records call
\* B is the text "Jane".
Chars(s) ==
  CASE s = "Jane Doe" -> << "J", "a", "n", "e", " ", "D", "o", "e" >>
    [] s = "Doe Enterprises" ->
         << "D", "o", "e", " ", "E", "n", "t", "e", "r", "p", "r", "i", "s", "e", "s" >>
    [] s = "Vessel One" -> << "V", "e", "s", "s", "e", "l", " ", "O", "n", "e" >>
    [] s = "A" -> << "A" >>
    [] s = "B" -> << "J", "a", "n", "e" >>
    [] s = "C" -> << "C" >>
    [] s = "addr1" -> << "a", "d", "d", "r", "1" >>
    [] s = "d1" -> << "d", "1" >>
    [] OTHER -> << >>

\* The q, min_score, limit, offset and source parameters of GET /search.
Queries ==
  { << >>,
    << "j", "a", "n", "e", " ", "d", "o", "e" >>,
    << "d", "o", "e" >>,
    << "d", "o", "e", " ", "j", "a", "n", "e" >>,
    << "a" >>,
    << "j", "a", "n" >>,
    << "d", "1" >>,
    << "o", "n", "e", " ", "t", "w", "o" >> }
MinScores == {0, 500}
Limits == {1, 20}
Offsets == {0, 1}
NoFilter == ""
SourceFilters == {NoFilter, "OFAC"}

\* column ILIKE '%query%'
ILike(text, query) == Contains(lower(Chars(text)), lower(query))

StoredAliases(e) == { c \in children : c.entity_id = e.id /\ c.tbl = "aliases" }

\* build_search_query without a filter: the entities whose name, or one of
\* whose aliases, addresses or documents, contains the query.
SearchQuery(query) ==
  { e \in entities :
      \/ ILike(e.name, query)
      \/ \E c \in children :
           /\ c.entity_id = e.id
           /\ c.tbl \in {"aliases", "addresses", "documents"}
           /\ ILike(c.val, query) }

\* The aliases the loop over entity.aliases can end with as matched_alias:
\* those of the highest score, when that score is above 0.
TopAliases(e, query) ==
  { a \in StoredAliases(e) :
      /\ calculate_similarity_score(query, Chars(a.val)) > 0
      /\ \A b \in StoredAliases(e) :
           calculate_similarity_score(query, Chars(b.val))
             <= calculate_similarity_score(query, Chars(a.val)) }

\* The match_info search_entities computes for one entity.
NameMatch(e, query) ==
  LET name_score == calculate_similarity_score(query, Chars(e.name))
  IN [entity |-> e.id, score |-> name_score,
      match_type |-> IF name_score = 1000 THEN "exact" ELSE "fuzzy",
      matched_field |-> "name", matched_value |-> e.name]

AliasMatch(e, query, a) ==
  [entity |-> e.id, score |-> calculate_similarity_score(query, Chars(a.val)),
   match_type |-> "alias", matched_field |-> "alias", matched_value |-> a.val]

\* The choice of the match with the alias winning the ties.
MatchInfosAliasOnTie(e, query) ==
  LET better == { a \in TopAliases(e, query) :
                    NameMatch(e, query).score <= AliasMatch(e, query, a).score }
  IN IF better = {} THEN { NameMatch(e, query) }
     ELSE { AliasMatch(e, query, a) : a \in better }

MatchInfos(e, query) ==
  LET better == { a \in TopAliases(e, query) :
                    NameMatch(e, query).score < AliasMatch(e, query, a).score }
  IN IF better = {} THEN { NameMatch(e, query) }
     ELSE { AliasMatch(e, query, a) : a \in better }

\* The orders in which the store can return a set of rows.
Orders(rows) ==
  { s \in [1..Cardinality(rows) -> rows] :
      \A i, j \in 1..Cardinality(rows) : i # j => s[i] # s[j] }

\* offset(offset).limit(limit)
Page(rows, offset, limit) ==
  SubSeq(rows, offset + 1, IF offset + limit < Len(rows) THEN offset + limit ELSE Len(rows))

\* The loop over the page: the match_info of every row, in turn.
RECURSIVE Scored(_, _)
Scored(rows, query) ==
  IF rows = << >> THEN { << >> }
  ELSE { << m >> \o rest : m \in MatchInfos(Head(rows), query),
                           rest \in Scored(Tail(rows), query) }

\* The filter that keeps the matches above min_score only.
KeptAbove(matches, min_score) == SelectSeq(matches, LAMBDA m : m.score > min_score)

\* if best_score >= min_score
Kept(matches, min_score) == SelectSeq(matches, LAMBDA m : m.score >= min_score)

\* results.sort(key=score, reverse=True): stable, descending.
Sorted(matches) ==
  LET n == Len(matches)
      p == CHOOSE p \in Orders(1..n) :
             \A i, j \in 1..n :
               i < j => \/ matches[p[i]].score > matches[p[j]].score
                        \/ /\ matches[p[i]].score = matches[p[j]].score
                           /\ p[i] < p[j]
  IN [k \in 1..n |-> matches[p[k]]]

\* GET /search.  A source filter is stored on SearchFilters as the plain
\* string of the request; build_search_query reads its .value, which raises,
\* and the handler answers 500.
search_entities(q, limit, offset, source, min_score) ==
  /\ IF source # NoFilter
       THEN reply' = [kind |-> "search", q |-> q, min_score |-> min_score,
                      limit |-> limit, offset |-> offset, source |-> source,
                      status_code |-> 500, total_results |-> 0, results |-> << >>]
       ELSE \E rows \in Orders(SearchQuery(q)) :
              \E matches \in Scored(Page(rows, offset, limit), q) :
                reply' = [kind |-> "search", q |-> q, min_score |-> min_score,
                          limit |-> limit, offset |-> offset, source |-> source,
                          status_code |-> 200,
                          total_results |-> Len(Kept(matches, min_score)),
                          results |-> Sorted(Kept(matches, min_score))]
  /\ UNCHANGED << runs, sess, entities, children, update_logs, now, faults, smtp, scheduler >>

\* The stores searched: for each of three records, whether a run of OFAC or
\* of UN has inserted it, and whether that run went on, in the same batch,
\* to update the entity of record 1 with record 2.
StoredRecords == {1, 3, 5}
StoredEntity(i, source) ==
  [id |-> << 1, i >>, source |-> source, source_id |-> RecordPool[i].source_id,
   name |-> RecordPool[i].name, type |-> RecordPool[i].type, status |-> "ACTIVE",
   hash_signature |-> hash_signature(i), created_at |-> << 1, i >>,
   last_updated |-> << 1, i >>, latest |-> i]

SearchInit ==
  /\ runs = [r \in RunIds |-> IdleRun]
  /\ sess = [r \in RunIds |-> EmptySession]
  /\ \E stored \in [StoredRecords -> Sources \cup {"absent"}], updated \in BOOLEAN :
       LET present == { k \in StoredRecords : stored[k] # "absent" }
           again == updated /\ 1 \in present
       IN /\ entities =
               { IF again /\ i = 1
                   THEN [StoredEntity(1, stored[1]) EXCEPT
                           !.status = "UPDATED", !.latest = 2, !.last_updated = << 1, 2 >>]
                   ELSE StoredEntity(i, stored[i]) : i \in present }
          /\ children =
               UNION { NewChildRows(stored[i], RecordPool[i], << 1, i >>, << i, 0 >>) :
                         i \in present }
               \cup (IF again
                       THEN NewChildRows(stored[1], RecordPool[2], << 1, 1 >>, << 1, 5 >>)
                       ELSE {})
  /\ update_logs = {}
  /\ now = 1
  /\ faults = 0
  /\ reply = NoReply
  /\ smtp = "up"
  /\ scheduler = Started

SearchNext ==
  \E q \in Queries, limit \in Limits, offset \in Offsets,
     source \in SourceFilters, min_score \in MinScores :
    search_entities(q, limit, offset, source, min_score)

SearchSpec == SearchInit /\ [][SearchNext]_vars

\* ------------------------------------------------------------- maintenance
HealthWindow == 7     \* days the health check looks back in the ledger
MinCleanupDays == 7   \* the smallest days DELETE /etl/database/cleanup accepts
Today == 100          \* datetime.utcnow() of the maintenance calls, in days

\* ETLScheduler.start: setup_jobs, scheduler.start(), is_running = True and
\* the notification of the start; whatever is raised is logged and raised
\* again.  A second start only logs a warning.
start ==
  /\ scheduler' = IF scheduler.is_running THEN scheduler
                  ELSE [is_running |-> TRUE,
                        last |-> IF send_notification(smtp) = "raised"
                                   THEN "start_raised" ELSE "started"]
  /\ UNCHANGED << runs, sess, entities, children, update_logs, now, faults, reply, smtp >>

\* ETLScheduler.stop: shutdown, is_running = False and the notification of
\* the stop; whatever is raised is logged and not raised again.
stop ==
  /\ scheduler' = IF scheduler.is_running
                    THEN [is_running |-> FALSE, last |-> "stopped"]
                    ELSE scheduler
  /\ UNCHANGED << runs, sess, entities, children, update_logs, now, faults, reply, smtp >>

\* The count of health_check_job: the rows of the last HealthWindow days.
recent_updates == Cardinality({ u \in update_logs : u.update_date >= now - HealthWindow })

\* The health check counting the rows of status SUCCESS only.
HealthWarnsOnSuccessOnly ==
  Cardinality({ u \in update_logs :
                  u.status = "SUCCESS" /\ u.update_date >= now - HealthWindow }) = 0

\* if recent_updates == 0
HealthWarns == recent_updates = 0

\* health_check_job, fired every six hours while the scheduler runs: it
\* warns when the count is 0, and notifies an error when the store cannot
\* be queried.  It writes nothing.
health_check_job ==
  /\ scheduler.is_running
  /\ \E reachable \in BOOLEAN :
       scheduler' = [scheduler EXCEPT !.last =
         IF ~ reachable THEN "health_error"
         ELSE IF HealthWarns
           THEN (IF send_notification(smtp) = "raised"
                   THEN "health_error" ELSE "health_warned")
           ELSE "health_ok"]
  /\ UNCHANGED << runs, sess, entities, children, update_logs, now, faults, reply, smtp >>

\* DELETE /etl/database/cleanup.  The HTTPException(400) of days < 7 is
\* raised inside the try and answered by its except branch with 500.  The
\* rows of update_logs older than the cutoff are deleted; entities are only
\* counted.
cleanup_old_data(days) ==
  /\ IF days < MinCleanupDays
       THEN /\ reply' = [kind |-> "cleanup", days |-> days, status_code |-> 500,
                         deleted_logs |-> 0]
            /\ UNCHANGED << update_logs, faults >>
       ELSE LET old_logs == { u \in update_logs : u.update_date < now - days }
            IN \E ok \in CommitOutcomes :
                 /\ update_logs' = IF ok THEN update_logs \ old_logs ELSE update_logs
                 /\ faults' = IF ok THEN faults ELSE faults + 1
                 /\ reply' = [kind |-> "cleanup", days |-> days,
                              status_code |-> IF ok THEN 200 ELSE 500,
                              deleted_logs |-> IF ok THEN Cardinality(old_logs) ELSE 0]
  /\ UNCHANGED << runs, sess, entities, children, now, smtp, scheduler >>

\* The ledgers the maintenance calls find: rows that earlier runs of OFAC
\* wrote, by status and by age in days.
Ages == {0, 6, 8, 40}
CleanupDays == {5, 7, 30}
PastLog(status, age) ==
  [source |-> "OFAC", update_date |-> Today - age,
   records_added |-> 0, records_updated |-> 0, records_deleted |-> 0,
   file_hash |-> IF status = "SUCCESS" THEN calculate_hash(4) ELSE NoHash,
   status |-> status,
   error_message |-> IF status = "SUCCESS" THEN NoError
                     ELSE << "No se pudo descargar el archivo XML" >>,
   run |-> 0]
PastLogs == { PastLog(status, age) : status \in {"SUCCESS", "FAILED"}, age \in Ages }

OpsInit ==
  /\ runs = [r \in RunIds |-> IdleRun]
  /\ sess = [r \in RunIds |-> EmptySession]
  /\ entities = {}
  /\ children = {}
  /\ update_logs \in SUBSET PastLogs
  /\ now = Today
  /\ faults = 0
  /\ reply = NoReply
  /\ smtp \in Services
  /\ scheduler = Stopped

OpsNext ==
  \/ start
  \/ stop
  \/ health_check_job
  \/ \E days \in CleanupDays : cleanup_old_data(days)

OpsSpec == OpsInit /\ [][OpsNext]_vars

\* The scheduler process from its construction: start, the cron fires of the
\* two update jobs and the runs they make, stop.
JobInit ==
  /\ runs = [r \in RunIds |-> IdleRun]
  /\ sess = [r \in RunIds |-> EmptySession]
  /\ entities = {}
  /\ children = {}
  /\ update_logs = {}
  /\ now = 1
  /\ faults = 0
  /\ reply = NoReply
  /\ smtp \in Services
  /\ scheduler = Stopped

JobNext ==
  \/ start
  \/ stop
  \/ \E source \in Sources : scheduled_fire(source)
  \/ \E r \in RunIds : DownloadFailed(r)
  \/ \E r \in RunIds : VerifyChanges(r)
  \/ \E r \in RunIds : ReconcileRecord(r)
  \/ \E r \in RunIds : SkipRecord(r)
  \/ \E r \in RunIds : FinishRun(r)

JobSpec == JobInit /\ [][JobNext]_vars

\* -------------------------------------------------------------- parse_date
NoDate == << >>       \* parse_date returned None

Digits == {"0", "1", "2", "3", "4", "5", "6", "7", "8", "9"}
DigitValue(c) ==
  CASE c = "0" -> 0 [] c = "1" -> 1 [] c = "2" -> 2 [] c = "3" -> 3 [] c = "4" -> 4
    [] c = "5" -> 5 [] c = "6" -> 6 [] c = "7" -> 7 [] c = "8" -> 8 [] c = "9" -> 9

IsNumber(s) == s # << >> /\ \A k \in 1..Len(s) : s[k] \in Digits

RECURSIVE Number(_)
Number(s) ==
  IF s = << >> THEN 0
  ELSE 10 * Number(SubSeq(s, 1, Len(s) - 1)) + DigitValue(s[Len(s)])

\* The three fields of a text around its two separators, which are the
\* character sep, or runs of blanks for the blank of a strptime format.  No
\* fields when the text is not made of three non-empty fields.
Separators(s, sep) == { k \in 1..Len(s) : s[k] = sep }
Fields(s, sep) ==
  LET runs_ == { p \in (1..Len(s)) \X (1..Len(s)) :
                   /\ p[1] <= p[2]
                   /\ \A k \in p[1]..p[2] : s[k] # sep
                   /\ p[1] = 1 \/ s[p[1] - 1] = sep
                   /\ p[2] = Len(s) \/ s[p[2] + 1] = sep }
      gaps == IF sep = " " THEN Cardinality(runs_) - 1
              ELSE Cardinality(Separators(s, sep))
      first == CHOOSE p \in runs_ : \A q \in runs_ : p[1] <= q[1]
      last == CHOOSE p \in runs_ : \A q \in runs_ : q[1] <= p[1]
      middle == CHOOSE p \in runs_ : p # first /\ p # last
  IN IF /\ Cardinality(runs_) = 3 /\ gaps = 2
        /\ s[1] # sep /\ s[Len(s)] # sep
       THEN << SubSeq(s, first[1], first[2]), SubSeq(s, middle[1], middle[2]),
               SubSeq(s, last[1], last[2]) >>
       ELSE << >>

\* %b of strptime: the abbreviated month names, whatever the case.
MonthNames ==
  << << "j", "a", "n" >>, << "f", "e", "b" >>, << "m", "a", "r" >>,
     << "a", "p", "r" >>, << "m", "a", "y" >>, << "j", "u", "n" >>,
     << "j", "u", "l" >>, << "a", "u", "g" >>, << "s", "e", "p" >>,
     << "o", "c", "t" >>, << "n", "o", "v" >>, << "d", "e", "c" >> >>
MonthOfName(s) ==
  IF \E m \in 1..12 : MonthNames[m] = lower(s)
    THEN CHOOSE m \in 1..12 : MonthNames[m] = lower(s) ELSE 0

\* %m and %d of strptime: one or two digits; %Y: four digits.
MonthOfNumber(s) == IF IsNumber(s) /\ Len(s) <= 2 THEN Number(s) ELSE 0
DayOf(s) == IF IsNumber(s) /\ Len(s) <= 2 THEN Number(s) ELSE 0
YearOf(s) == IF IsNumber(s) /\ Len(s) = 4 THEN Number(s) ELSE 0

DaysIn(year, month) ==
  IF month = 2
    THEN (IF year % 4 = 0 /\ (year % 100 # 0 \/ year % 400 = 0) THEN 29 ELSE 28)
  ELSE IF month \in {4, 6, 9, 11} THEN 30 ELSE 31

\* datetime(year, month, day).date(), or the ValueError of strptime.
DateOf(year, month, day) ==
  IF year >= 1 /\ month \in 1..12 /\ day >= 1 /\ day <= DaysIn(year, month)
    THEN << year, month, day >> ELSE NoDate

\* datetime.strptime(text, format).date() for the three formats in use,
\* NoDate standing for the ValueError that parse_date catches.
strptime(text, format) ==
  CASE format = "%Y-%m-%d" ->
         LET f == Fields(text, "-")
         IN IF f = << >> THEN NoDate
            ELSE DateOf(YearOf(f[1]), MonthOfNumber(f[2]), DayOf(f[3]))
    [] format = "%d/%m/%Y" ->
         LET f == Fields(text, "/")
         IN IF f = << >> THEN NoDate
            ELSE DateOf(YearOf(f[3]), MonthOfNumber(f[2]), DayOf(f[1]))
    [] format = "%d %b %Y" ->
         LET f == Fields(text, " ")
         IN IF f = << >> THEN NoDate
            ELSE DateOf(YearOf(f[3]), MonthOfName(f[2]), DayOf(f[1]))

\* OFACParserFinal.parse_date and UNParserFinal.parse_date.
parse_date(source, date_string) ==
  IF date_string = << >> THEN NoDate
  ELSE IF Len(date_string) = 10 THEN strptime(date_string, "%Y-%m-%d")
  ELSE IF source = "OFAC"
    THEN (IF Len(date_string) > 10 THEN strptime(date_string, "%d %b %Y") ELSE NoDate)
  ELSE (IF Separators(date_string, "/") # {}
          THEN strptime(date_string, "%d/%m/%Y") ELSE NoDate)

\* The date texts of the feeds: the three layouts over a few years, months
\* and days, well formed or not, and texts that are no date at all.
YearTexts == { << "2", "0", "2", "0" >>, << "2", "0", "2", "1" >>, << "2", "0" >> }
MonthTexts == { << "0", "2" >>, << "1", "2" >>, << "1", "3" >>, << "2" >> }
MonthNameTexts == { << "F", "e", "b" >>, << "d", "e", "c" >>, << "F", "e", "v" >> }
DayTexts == { << "0", "5" >>, << "2", "9" >>, << "3", "1" >>, << "5" >>, << "0", "0" >> }
DateTexts ==
  { y \o << "-" >> \o m \o << "-" >> \o d : y \in YearTexts, m \in MonthTexts, d \in DayTexts }
    \cup { d \o << "/" >> \o m \o << "/" >> \o y :
             y \in YearTexts, m \in MonthTexts, d \in DayTexts }
    \cup { d \o << " " >> \o m \o << " " >> \o y :
             y \in YearTexts, m \in MonthNameTexts, d \in DayTexts }
    \cup { << >>, << "n", "/", "a" >>, << "2", "0", "2", "0", "-", "0", "2", "-", "0", "5", "T" >> }

DateInit ==
  /\ runs = [r \in RunIds |-> IdleRun]
  /\ sess = [r \in RunIds |-> EmptySession]
  /\ entities = {}
  /\ children = {}
  /\ update_logs = {}
  /\ now = 1
  /\ faults = 0
  /\ smtp = "up"
  /\ scheduler = Started
  /\ \E source \in Sources, date_string \in DateTexts :
       reply = [kind |-> "call", source |-> source, date_string |-> date_string]

\* One call of parse_date on the text asked.
ParseDate ==
  /\ reply.kind = "call"
  /\ reply' = [kind |-> "date", source |-> reply.source,
               date_string |-> reply.date_string,
               date |-> parse_date(reply.source, reply.date_string)]
  /\ UNCHANGED << runs, sess, entities, children, update_logs, now, faults, smtp, scheduler >>

DateNext == ParseDate

DateSpec == DateInit /\ [][DateNext]_vars

\* ------------------------------------------------------------------ claims
\* The step in which run r, holding a downloaded feed, compares its hash
\* with the ledger ("Verificar cambios") and leaves the downloading state.
Checked(r) ==
  /\ runs[r].pc = "downloading"
  /\ runs'[r].pc # "downloading"
  /\ runs'[r].xml_content # NoContent

\* The file_hash of the most recent SUCCESS row of a source, NoHash when
\* the source has none.
SuccessLogsOf(source) == { u \in LogsOf(source) : u.status = "SUCCESS" }
LastSuccessHash(source) ==
  IF SuccessLogsOf(source) = {} THEN NoHash
  ELSE (CHOOSE u \in SuccessLogsOf(source) :
          \A v \in SuccessLogsOf(source) : v.update_date <= u.update_date).file_hash

\* C1: at every moment, for each source, at most one ingestion run is
\* executing, whatever the interleaving of scheduled fires and manual
\* triggers.
AtMostOneRunPerSource ==
  \A q1, q2 \in RunIds :
    (Executing(q1) /\ Executing(q2) /\ runs[q1].source = runs[q2].source) => q1 = q2

\* C2: of two manual triggers for one source, the second arriving before the
\* run of the first has finished, only one starts a run: two runs started
\* by manual triggers for the same source are never executing together.
SecondManualTriggerRejected ==
  \A q1, q2 \in RunIds :
    (/\ Executing(q1) /\ Executing(q2)
     /\ runs[q1].origin = "manual" /\ runs[q2].origin = "manual"
     /\ runs[q1].source = runs[q2].source) => q1 = q2

\* C3: a run is short-circuited as no_changes exactly when the hash of the
\* downloaded feed equals the file_hash of the most recent SUCCESS row of
\* its source, whatever FAILED rows were written after that row.
NoChangeIffLastSuccessHash ==
  [][\A r \in RunIds :
       Checked(r) =>
         ((runs'[r].result = "no_changes")
            <=> (runs'[r].file_hash = LastSuccessHash(runs[r].source)))]_vars

\* Run r is the only run of its source that started after run p did.
OnlyRunSince(p, r) ==
  /\ p # r
  /\ runs[p].source = runs[r].source
  /\ runs[p].start_time < runs[r].start_time
  /\ \A q \in RunIds \ {p, r} :
       (runs[q].pc # "idle" /\ runs[q].source = runs[r].source)
         => runs[q].start_time < runs[p].start_time

\* C4: when a run of a source has succeeded on a feed and the next run of
\* that source (the only one started since) downloads the same feed, that
\* run ends as no_changes in the step that compares the hashes: it calls
\* process_entity on nothing and leaves the committed entity rows and child
\* rows as they were.
UnchangedFeedIsNoChange ==
  [][\A p, r \in RunIds :
       (/\ Checked(r)
        /\ OnlyRunSince(p, r)
        /\ runs[p].pc = "done" /\ runs[p].result = "success"
        /\ runs'[r].xml_content = runs[p].xml_content)
       => /\ runs'[r].pc = "done" /\ runs'[r].result = "no_changes"
          /\ runs'[r].reconciled = << >>
          /\ sess'[r] = EmptySession
          /\ entities' = entities /\ children' = children]_vars

\* A run that ended as no_changes right after a successful run on the same
\* feed that had reconciled records.
UnchangedFeedSeen ==
  \E p, r \in RunIds :
    /\ OnlyRunSince(p, r)
    /\ runs[p].pc = "done" /\ runs[p].result = "success"
    /\ runs[p].reconciled # << >>
    /\ runs[r].pc = "done" /\ runs[r].result = "no_changes"
    /\ runs[r].xml_content = runs[p].xml_content
    /\ entities # {}

\* C5: when a run of a source ended FAILED while reconciling a feed it had
\* parsed, the next run of that source that downloads the same feed
\* processes that feed again (without which the store cannot reach the state
\* of one uninterrupted successful run on the feed).
FailedFeedIsReprocessed ==
  [][\A p, r \in RunIds :
       (/\ Checked(r)
        /\ OnlyRunSince(p, r)
        /\ runs[p].pc = "done" /\ runs[p].result = "failed"
        /\ runs[p].reconciled # << >>
        /\ runs'[r].xml_content = runs[p].xml_content)
       => runs'[r].pc = "parsing"]_vars

\* The committed rows of one child table of an entity, and the items the
\* record last reconciled for the entity has for that table.
RowsOf(e, tbl) == { c \in children : c.entity_id = e.id /\ c.tbl = tbl }
LatestItems(e, tbl) ==
  LET items == ChildItems(e.source, RecordPool[e.latest])
  IN { k \in 1..Len(items) : items[k].tbl = tbl }
LatestValues(e, tbl) ==
  LET items == ChildItems(e.source, RecordPool[e.latest])
  IN { items[k].val : k \in LatestItems(e, tbl) }

\* C6: the committed aliases of an entity are exactly the alias list of the
\* record last reconciled for it: after a record with aliases [B] updated an
\* entity ingested with [A], no alias of an earlier parse is left.
AliasesAreThoseOfLatestRecord ==
  \A e \in entities :
    /\ { c.val : c \in RowsOf(e, "aliases") } = LatestValues(e, "aliases")
    /\ Cardinality(RowsOf(e, "aliases")) = Cardinality(LatestItems(e, "aliases"))

\* C7: every child collection of a committed entity (aliases, addresses,
\* documents, nationalities, sanctions, births) holds as many rows as the
\* record last reconciled for the entity has items, so at most one birth row
\* and one sanction row.
CollectionsMatchLatestRecord ==
  \A e \in entities : \A tbl \in ChildTables :
    Cardinality(RowsOf(e, tbl)) = Cardinality(LatestItems(e, tbl))

\* C8: no two committed entity rows share (source, source_id).
SourceIdIsUnique ==
  \A e1, e2 \in entities :
    (e1.source = e2.source /\ e1.source_id = e2.source_id) => e1 = e2

\* C9: every run has one ledger row from its start, IN_PROGRESS while the
\* run executes and closed to SUCCESS, FAILED or NO_CHANGE when it is done.
RowsOfRun(r) == { u \in update_logs : u.run = r }
OneLedgerRowPerRun ==
  \A r \in RunIds :
    /\ Executing(r) =>
         /\ Cardinality(RowsOfRun(r)) = 1
         /\ \A u \in RowsOfRun(r) : u.status = "IN_PROGRESS"
    /\ runs[r].pc = "done" =>
         /\ Cardinality(RowsOfRun(r)) = 1
         /\ \A u \in RowsOfRun(r) : u.status \in {"SUCCESS", "FAILED", "NO_CHANGE"}

\* C10: a run that returned a failure (download failure, feed that cannot
\* be parsed, commit refused) has a FAILED ledger row whose error_message is
\* not empty.
FailedRunHasMessage ==
  \A r \in RunIds :
    (runs[r].pc = "done" /\ runs[r].result = "failed")
      => \E u \in RowsOfRun(r) : u.status = "FAILED" /\ u.error_message # NoError

\* The step in which run r, its download having returned None, takes the
\* except branch of run_*_update and returns.
DownloadGaveNothing(r) ==
  /\ runs[r].pc = "downloading"
  /\ runs'[r].pc = "done"
  /\ runs'[r].xml_content = NoContent

\* C11: when the download of a run fails, the run returns a failure (with a
\* FAILED ledger row carrying the message, unless the store refuses the
\* commit of that very row), it has called process_entity on nothing, its
\* session holds no row and the committed entity rows and child rows are
\* left as they were.
DownloadFailureWritesNoEntity ==
  [][\A r \in RunIds :
       DownloadGaveNothing(r) =>
         /\ runs'[r].result \in {"failed", "raised"}
         /\ (runs'[r].result = "failed") <=>
              (\E u \in update_logs' \ update_logs :
                 u.run = r /\ u.status = "FAILED" /\ u.error_message # NoError)
         /\ \A u \in update_logs' : u.run = r => u.status = "FAILED"
         /\ runs'[r].reconciled = << >>
         /\ sess'[r] = EmptySession
         /\ entities' = entities /\ children' = children]_vars

\* A run whose download failed has returned with its FAILED row while the
\* store holds entities of an earlier run of the same source.
DownloadFailureSeen ==
  \E r \in RunIds :
    /\ runs[r].pc = "done" /\ runs[r].xml_content = NoContent
    /\ runs[r].result = "failed"
    /\ \E u \in update_logs : u.run = r /\ u.status = "FAILED"
    /\ \E e \in entities : e.source = runs[r].source

\* C12: a run whose feed is well-formed XML but holds no record does not
\* end as success, whichever the source.
EmptyFeedIsNotSuccess ==
  \A r \in RunIds :
    (/\ runs[r].pc = "done" /\ runs[r].xml_content # NoContent
     /\ FeedPool[runs[r].xml_content].wellformed
     /\ FeedPool[runs[r].xml_content].entries = << >>)
      => runs[r].result # "success"

\* The records of the feed of run r whose extraction raised, by position,
\* and the records that are valid: named and extracted without an exception.
RaisingEntries(r) ==
  { k \in 1..Len(Entries(r)) : RecordPool[Entries(r)[k]].extract_error }
ValidEntries(r) ==
  { k \in 1..Len(Entries(r)) :
      /\ ~ RecordPool[Entries(r)[k]].extract_error
      /\ RecordPool[Entries(r)[k]].name # "" }

\* C13: in a run that ended as success, every valid record of the feed has
\* its entity in the store, no record whose processing raised was written by
\* the run, and the error list of the run holds one message per record whose
\* processing raised.
RecordErrorsAreContained ==
  \A r \in RunIds :
    (runs[r].pc = "done" /\ runs[r].result = "success") =>
      /\ \A k \in ValidEntries(r) :
           \E e \in entities : /\ e.source = runs[r].source
                               /\ e.source_id = RecordPool[Entries(r)[k]].source_id
      /\ \A k \in RaisingEntries(r) :
           ~ \E e \in entities : e.last_updated = << r, k >>
      /\ Len(runs[r].errors) = Cardinality(RaisingEntries(r))

\* The rows of a set of child rows that belong to one entity.
ChildRowsIn(rows, entity_id) == { c \in rows : c.entity_id = entity_id }

\* Some run that is parsing a feed of the entity's source carries a record
\* with the entity's source_id.
InFeedOfParsingRun(e) ==
  \E r \in RunIds :
    /\ runs[r].pc = "parsing" /\ runs[r].source = e.source
    /\ \E k \in 1..Len(Entries(r)) :
         RecordPool[Entries(r)[k]].source_id = e.source_id

\* C14: no step removes a committed entity row or gives one the status
\* DELISTED; a step changes a committed entity row or its child rows only
\* while a run of the entity's source parses a feed that carries the
\* entity's source_id, so an entity absent from the feed is left as it was;
\* and every ledger row has records_deleted = 0.
AbsentEntityIsUntouched ==
  [][/\ \A e \in entities :
          /\ \E e2 \in entities' : e2.id = e.id
          /\ (e \notin entities'
                \/ ChildRowsIn(children', e.id) # ChildRowsIn(children, e.id))
               => InFeedOfParsingRun(e)
     /\ \A e \in entities' : e.status \in {"ACTIVE", "UPDATED"}
     /\ \A u \in update_logs' : u.records_deleted = 0]_vars

\* A run succeeded on a feed without record Y after Y had been stored by an
\* earlier run of the source: Y is still as that earlier run wrote it.
AbsentEntitySeen ==
  \E p, r \in RunIds :
    /\ OnlyRunSince(p, r)
    /\ runs[r].pc = "done" /\ runs[r].result = "success"
    /\ runs[r].reconciled = << 1, 2 >>
    /\ \E e \in entities :
         /\ e.source = runs[r].source /\ e.source_id = "Y"
         /\ e.status = "ACTIVE" /\ e.last_updated[1] = p
         /\ ChildRowsIn(children, e.id) # {}

\* What the scoring rule says of a pair of texts.
EqualIgnoringCase(query, text) == lower(query) = lower(text)
SubstringIgnoringCase(query, text) == Contains(lower(text), lower(query))
CommonWords(query, text) == Words(lower(query)) \cap Words(lower(text))
AllWords(query, text) == Words(lower(query)) \cup Words(lower(text))

\* The cascade of the scoring rule on one answered call.
Cascade(query, text, score) ==
  /\ EqualIgnoringCase(query, text) => score = 1000
  /\ (~EqualIgnoringCase(query, text) /\ SubstringIgnoringCase(query, text))
       => score = 800
  /\ (~EqualIgnoringCase(query, text)
        /\ ~SubstringIgnoringCase(query, text)
        /\ CommonWords(query, text) # {})
       => score * Cardinality(AllWords(query, text))
            = 600 * Cardinality(CommonWords(query, text))
  /\ (~EqualIgnoringCase(query, text)
        /\ ~SubstringIgnoringCase(query, text)
        /\ CommonWords(query, text) = {})
       => score = 0

\* C15 as stated: the cascade holds for every query and text.
ScoreFollowsCascade ==
  reply.kind = "score" => Cascade(reply.query, reply.text, reply.score)

\* C15: for a query and a text that are both non-empty the score is 1.0 when
\* they are equal ignoring case, else 0.8 when the query is a
\* case-insensitive substring of the text, else (|Q n T| / |Q u T|) * 0.6
\* when their lower-cased word sets intersect, else 0.0; when the query or
\* the text is empty the score is 0.0.  Hence every score lies in [0, 1], is
\* 1.0 only for texts equal ignoring case, and is at most 0.6 when the query
\* is neither equal to nor a substring of the text.
ScoreFollowsCascadeUnlessEmpty ==
  reply.kind = "score" =>
    /\ (reply.query = << >> \/ reply.text = << >>) => reply.score = 0
    /\ (reply.query # << >> /\ reply.text # << >>)
         => Cascade(reply.query, reply.text, reply.score)
    /\ reply.score \in 0..1000
    /\ reply.score = 1000 => EqualIgnoringCase(reply.query, reply.text)
    /\ (~EqualIgnoringCase(reply.query, reply.text)
          /\ ~SubstringIgnoringCase(reply.query, reply.text))
         => reply.score <= 600

\* Every branch of the cascade was taken by some call: this one scored two
\* texts on the words they share, in another order and another case.
WordOverlapScored ==
  /\ reply.kind = "score"
  /\ reply.query = << "A", " ", "b" >>
  /\ reply.text = << "b", " ", "a" >>
  /\ reply.score = 600

\* The effective score of an entity: the higher of its name score and of
\* the best score of its aliases.
EffectiveScore(e, query) ==
  LET name_score == calculate_similarity_score(query, Chars(e.name))
      alias_scores == { calculate_similarity_score(query, Chars(a.val)) :
                          a \in StoredAliases(e) }
  IN IF \E s \in alias_scores : s > name_score
       THEN CHOOSE s \in alias_scores : \A t \in alias_scores : t <= s
       ELSE name_score

\* C16: a search answers without an error and returns exactly the stored
\* entities whose effective score is at least min_score, the entities that
\* match by shared words only included; on an empty store it returns no
\* match.  Stated for the requests with a min_score above 0 and without a
\* filter whose page holds the whole store.
SearchReturnsEveryMatch ==
  (/\ reply.kind = "search"
   /\ reply.min_score > 0
   /\ reply.source = NoFilter
   /\ reply.offset = 0
   /\ reply.limit >= Cardinality(entities))
    =>
    /\ reply.status_code = 200
    /\ { reply.results[k].entity : k \in 1..Len(reply.results) }
         = { e.id : e \in { x \in entities :
                              EffectiveScore(x, reply.q) >= reply.min_score } }

\* A step of health_check_job that queried the ledger.
HealthChecked ==
  /\ scheduler' # scheduler
  /\ scheduler'.last \in {"health_ok", "health_warned"}

NoRecentSuccess ==
  ~ \E u \in update_logs : u.status = "SUCCESS" /\ u.update_date >= now - 7
FailedInLastDay ==
  \E u \in update_logs : u.status = "FAILED" /\ u.update_date >= now - 1

\* C17: the health check warns exactly when the ledger holds no SUCCESS row
\* of the last 7 days or holds a FAILED row of the last 24 hours, and it
\* writes neither to the ledger nor to the store.
HealthCheckWarnsOnStaleOrFailed ==
  [][HealthChecked =>
       /\ (scheduler'.last = "health_warned") <=> (NoRecentSuccess \/ FailedInLastDay)
       /\ update_logs' = update_logs
       /\ entities' = entities
       /\ children' = children]_vars

\* C18: a ledger row, once written, is neither modified nor deleted by any
\* operation, and rows are written by ingestion runs only: every step keeps
\* the rows there are, and a step that adds a row is the step in which a run
\* returns.
LedgerIsAppendOnly ==
  [][/\ update_logs \subseteq update_logs'
     /\ \A u \in update_logs' \ update_logs :
          /\ u.run \in RunIds
          /\ runs[u.run].pc # "done" /\ runs'[u.run].pc = "done"]_vars

\* C19: every run that ended with SUCCESS or FAILED, scheduled or manual,
\* has invoked the notification callback with that outcome.
EveryOutcomeIsNotified ==
  \A r \in RunIds :
    runs[r].pc = "done" =>
      /\ runs[r].result = "success" => runs[r].notified = "success"
      /\ runs[r].result = "failed" => runs[r].notified = "error"

\* The ledger rows of run r agree with what run_*_update returned.
LedgerAgrees(r) ==
  /\ runs[r].result = "success" =>
       \E u \in update_logs :
         /\ u.run = r /\ u.status = "SUCCESS" /\ u.file_hash = runs[r].file_hash
         /\ u.records_added = runs[r].entities_added
  /\ runs[r].result = "failed" =>
       \E u \in update_logs : u.run = r /\ u.status = "FAILED"
  /\ runs[r].result \in {"no_changes", "raised"} =>
       ~ \E u \in update_logs : u.run = r

\* C20: an exception raised by SMTP inside send_notification never leaves
\* it.  With the service refusing, the job of every run still returns, the
\* run has the status run_*_update returned and the ledger rows that go with
\* it, its session holds nothing uncommitted, and start() and stop() of the
\* scheduler complete.
NotificationFailureIsContained ==
  /\ \A r \in RunIds :
       runs[r].pc = "done" =>
         /\ runs[r].job = "returned"
         /\ runs[r].notified = Notification(runs[r].origin, runs[r].result)
         /\ LedgerAgrees(r)
         /\ sess[r] = EmptySession
  /\ scheduler.last \in {"", "started", "stopped"}
  /\ scheduler.is_running <=> scheduler.last = "started"

\* A run notified its success to a refusing SMTP service, after the
\* scheduler was started under that service.
FailedNotificationSeen ==
  /\ smtp = "down"
  /\ scheduler = Started
  /\ \E r \in RunIds :
       /\ runs[r].pc = "done" /\ runs[r].result = "success"
       /\ runs[r].notified = "success" /\ runs[r].job = "returned"
       /\ \E e \in entities : e.id[1] = r

\* The entity rows a session holds or the store has committed.
KnownEntities == entities \cup UNION { sess[r].ents : r \in RunIds }

\* C21: process_entity creates an entity with status ACTIVE when its lookup
\* by (source, source_id) finds none and sets UPDATED on the one it finds; no
\* other status is assigned.  So every entity row is ACTIVE exactly when
\* one call of process_entity has written it (created_at = last_updated)
\* and UPDATED when a later call has, and a committed ACTIVE entity holds in
\* every child table the items of the record that created it.
StatusCountsReconciliations ==
  /\ \A e \in KnownEntities :
       /\ e.status \in {"ACTIVE", "UPDATED"}
       /\ e.status = "ACTIVE" <=> e.created_at = e.last_updated
  /\ \A e \in entities :
       e.status = "ACTIVE" =>
         LET rows == { c \in children : c.entity_id = e.id }
             items == ChildItems(e.source, RecordPool[e.latest])
         IN /\ { << c.tbl, c.val >> : c \in rows }
                 = { << items[k].tbl, items[k].val >> : k \in 1..Len(items) }
            /\ Cardinality(rows) = Len(items)

\* An entity was created with its children and another was updated.
BothStatusesSeen ==
  /\ \E e \in entities : e.status = "ACTIVE" /\ RowsOf(e, "aliases") # {}
  /\ \E e \in entities : e.status = "UPDATED"

\* C22: the hash_signature of every committed entity is the hash of the
\* record that was last reconciled for it, whether that record inserted the
\* entity or updated it.
FingerprintIsOfLatestRecord ==
  \A e \in entities : e.hash_signature = hash_signature(e.latest)

\* The entries with a name that run r has gone through, by position in its
\* feed, and those of them whose reconciliation the store has committed:
\* the entity of the entry carries the instant of that entry, or of a later
\* entry of the same run for the same source_id.
ProcessedEntries(r) ==
  { k \in 1..(runs[r].idx - 1) : RecordPool[Entries(r)[k]].name # "" }
CommittedEntries(r) ==
  { k \in ProcessedEntries(r) :
      \E e \in entities :
        /\ e.source_id = RecordPool[Entries(r)[k]].source_id
        /\ e.last_updated[1] = r
        /\ e.last_updated[2] >= k }

\* C23: while a run is inside its loop, the records it has committed are a
\* prefix of the records of its feed, in feed order, and fewer than a batch
\* of processed records is uncommitted.  Stated for a run that is the only
\* one to have started.
CommittedRecordsFormPrefix ==
  \A r \in RunIds :
    (runs[r].pc = "parsing" /\ \A q \in RunIds \ {r} : runs[q].pc = "idle") =>
      /\ \A k \in CommittedEntries(r) : \A j \in ProcessedEntries(r) :
           j < k => j \in CommittedEntries(r)
      /\ Cardinality(ProcessedEntries(r) \ CommittedEntries(r)) < CommitEvery

\* The committed rows of entity e are those of record i: its scalars, and in
\* every child table as many rows as the record has items, of those values.
HoldsRecord(e, i) ==
  LET items == ChildItems(e.source, RecordPool[i])
  IN /\ e.name = RecordPool[i].name
     /\ e.type = RecordPool[i].type
     /\ e.source_id = RecordPool[i].source_id
     /\ \A tbl \in ChildTables :
          /\ { c.val : c \in RowsOf(e, tbl) }
               = { items[k].val : k \in { n \in 1..Len(items) : items[n].tbl = tbl } }
          /\ Cardinality(RowsOf(e, tbl))
               = Cardinality({ n \in 1..Len(items) : items[n].tbl = tbl })

\* C24: every committed state, which is what a search running beside a
\* reconciliation reads, holds for each entity the scalar fields and the
\* complete child collections of one single reconciled record, never an
\* entity between the deletion and the rebuilding of its child rows.
CommittedEntityIsOneRecord ==
  \A e \in entities : \E i \in 1..Len(RecordPool) : HoldsRecord(e, i)

\* The scores search compares for a stored entity.
NameScore(e, query) == calculate_similarity_score(query, Chars(e.name))
AliasScores(e, query) ==
  { calculate_similarity_score(query, Chars(a.val)) : a \in StoredAliases(e) }
AliasMaximum(e, query) ==
  IF AliasScores(e, query) = {} THEN 0
  ELSE CHOOSE s \in AliasScores(e, query) : \A t \in AliasScores(e, query) : t <= s

SameRequestAgain ==
  /\ reply.kind = "search" /\ reply'.kind = "search"
  /\ reply.offset = 0 /\ reply.limit >= Cardinality(entities)
  /\ reply.status_code = 200 /\ reply'.status_code = 200
  /\ reply'.q = reply.q /\ reply'.min_score = reply.min_score
  /\ reply'.limit = reply.limit /\ reply'.offset = reply.offset
  /\ reply'.source = reply.source
  /\ entities' = entities /\ children' = children

\* C26: the results of a response are in non-increasing order of score, and
\* on an unchanged store the same request is answered with the same results
\* in the same order, results of equal score included.
ResultOrderIsDeterministic ==
  [][/\ reply'.kind = "search" =>
          \A i, j \in 1..Len(reply'.results) :
            i < j => reply'.results[i].score >= reply'.results[j].score
     /\ SameRequestAgain => reply'.results = reply.results]_vars

\* The matches of a request before pagination: the entities the query of
\* build_search_query selects whose score is at least min_score.
AllMatches(query, min_score) ==
  { e \in SearchQuery(query) : EffectiveScore(e, query) >= min_score }

\* The rankings of a set of entities by descending score.
Rankings(matched, query) ==
  { s \in Orders(matched) :
      \A i, j \in 1..Len(s) :
        i < j => EffectiveScore(s[i], query) >= EffectiveScore(s[j], query) }

\* C30: a response with (limit, offset) is the slice [offset, offset+limit)
\* of one list of all the matches with a score of at least min_score,
\* ranked by descending score, and its total_results is the length of that
\* list, the same on every page.
PageIsSliceOfRanking ==
  (reply.kind = "search" /\ reply.status_code = 200) =>
    \E ranking \in Rankings(AllMatches(reply.q, reply.min_score), reply.q) :
      /\ [k \in 1..Len(reply.results) |-> reply.results[k].entity]
           = [k \in 1..Len(Page(ranking, reply.offset, reply.limit)) |->
                Page(ranking, reply.offset, reply.limit)[k].id]
      /\ reply.total_results = Len(ranking)

\* The date a well-formed text of one layout stands for, NoDate when the text
\* is not a well-formed text of that layout.
DigitsAt(s, ks) == \A k \in ks : s[k] \in Digits
IsoDate(s) ==
  IF Len(s) = 10 /\ s[5] = "-" /\ s[8] = "-" /\ DigitsAt(s, {1, 2, 3, 4, 6, 7, 9, 10})
    THEN DateOf(Number(SubSeq(s, 1, 4)), Number(SubSeq(s, 6, 7)), Number(SubSeq(s, 9, 10)))
    ELSE NoDate
SlashDate(s) ==
  IF Len(s) = 10 /\ s[3] = "/" /\ s[6] = "/" /\ DigitsAt(s, {1, 2, 4, 5, 7, 8, 9, 10})
    THEN DateOf(Number(SubSeq(s, 7, 10)), Number(SubSeq(s, 4, 5)), Number(SubSeq(s, 1, 2)))
    ELSE NoDate
MonthNameDate(s) ==
  IF Len(s) = 11 /\ s[3] = " " /\ s[7] = " " /\ DigitsAt(s, {1, 2, 8, 9, 10, 11})
    THEN DateOf(Number(SubSeq(s, 8, 11)), MonthOfName(SubSeq(s, 4, 6)), Number(SubSeq(s, 1, 2)))
    ELSE NoDate
WellFormedDate(source, s) ==
  IF IsoDate(s) # NoDate THEN IsoDate(s)
  ELSE IF source = "OFAC" THEN MonthNameDate(s) ELSE SlashDate(s)

\* C27: parse_date of an adapter answers every well-formed text of either of
\* its two formats (OFAC: YYYY-MM-DD and DD Mon YYYY; UN: YYYY-MM-DD and
\* DD/MM/YYYY) with the date the text stands for.
WellFormedDatesAreParsed ==
  reply.kind = "date" /\ WellFormedDate(reply.source, reply.date_string) # NoDate
    => reply.date = WellFormedDate(reply.source, reply.date_string)

\* The rows that do not belong to a source: the entities of the other
\* source and the child rows of those entities.
EntitiesNotOf(ents, source) == { e \in ents : e.source # source }
ChildrenNotOf(rows, source) ==
  { c \in rows : \E e \in entities \cup entities' :
                   e.id = c.entity_id /\ e.source # source }

\* C28: a step that changes the store is the step of a run, and it creates,
\* modifies and deletes no entity and no child row of the other source; no
\* step removes an entity or changes the id, the created_at, the source or
\* the source_id an entity has.
RunTouchesOnlyItsSource ==
  [][/\ entities' # entities \/ children' # children =>
          \E r \in RunIds :
            /\ runs[r].pc = "parsing"
            /\ runs'[r] # runs[r]
            /\ EntitiesNotOf(entities', runs[r].source)
                 = EntitiesNotOf(entities, runs[r].source)
            /\ ChildrenNotOf(children', runs[r].source)
                 = ChildrenNotOf(children, runs[r].source)
     /\ \A e \in entities : \E f \in entities' :
          /\ f.id = e.id
          /\ f.created_at = e.created_at
          /\ f.source = e.source
          /\ f.source_id = e.source_id]_vars

\* An entity that a run updated while the other source had an entity with
\* child rows in the store.
UpdateBesideOtherSource ==
  \E e \in entities, f \in entities :
    /\ e.source # f.source
    /\ e.status = "UPDATED"
    /\ e.last_updated[1] > f.created_at[1]
    /\ \E c \in children : c.entity_id = f.id

\* The ledger rows of the runs that parsed their feed, and the entity rows a
\* run created in the store.
ParsedRunLogs == { u \in update_logs : u.file_hash # NoHash }
CreatedBy(r) == { e \in entities : e.id[1] = r }

\* C29: in the ledger row of a run that parsed its feed, records_added is
\* the number of entity rows the run created in the store, and records_added
\* plus records_updated is the number of named records it reconciled.
LedgerCountsMatchStore ==
  \A u \in ParsedRunLogs :
    /\ u.records_added = Cardinality(CreatedBy(u.run))
    /\ u.records_added + u.records_updated = Len(runs[u.run].reconciled)

====
